---- MODULE Spec2Model ----
(***************************************************************************)
(* ResourceManager (src/src/models/ResourceManager.ts): the resource cache *)
(* of the scheduler.  A flat index (resourcesById) and a tree               *)
(* (topLevelResources + parent/children links) are rebuilt by every         *)
(* current-generation fetch completion and edited by addResource and        *)
(* removeResource; fetches are numbered by fetchId and a completion whose   *)
(* number is no longer current is dropped.                                  *)
(*                                                                          *)
(* The program is single threaded.  Every public method and every source    *)
(* completion is one action; the loop of applyAll over the queued callbacks *)
(* (line 71) is one step per callback, during which nothing else runs.      *)
(***************************************************************************)
EXTENDS Integers, Sequences, FiniteSets, TLC

VARIABLES
    fetchId,                    \* line 19
    isFetchingInitiated,        \* line 20
    isFetchingResolved,         \* line 21
    fetchingResourcesCallbacks, \* line 22: NoArray (undefined/null) or the generation whose array it references
    callbackArrays,             \* the arrays created at line 63, one per generation, kept alive by the closure of line 65
    currentStart,               \* line 23 (never assigned by the class)
    currentEnd,                 \* line 24 (never assigned by the class)
    topLevelResources,          \* line 17: [isNull, items]
    resourcesById,              \* line 18: id string -> object
    heap,                       \* the resource objects built by buildResource, by reference
    resourceGuid,               \* line 7 (static)
    built,                      \* how many resource objects buildResource has built so far
    generated,                  \* the ids line 367 has generated so far, in order
    loading,                    \* calendar.pushLoading / popLoading
    outstanding,                \* generations whose source resolution has not completed yet
    running,                    \* position of applyAll (line 71) in the batch being invoked
    invocations,                \* generation -> how often its n-th registered callback was invoked
    trace,                      \* what the last step emitted or invoked, in order
    lastCall,                   \* the last public call: getResources with its range, clear, or another
    delivery                    \* the completion the last step ran, if it ran one

vars == <<fetchId, isFetchingInitiated, isFetchingResolved, fetchingResourcesCallbacks,
          callbackArrays, currentStart, currentEnd, topLevelResources, resourcesById,
          heap, resourceGuid, built, generated, loading, outstanding, running, invocations, trace, lastCall,
          delivery>>

-----------------------------------------------------------------------------
(* JavaScript values *)

\* no array: the undefined of an unassigned field, or the null of line 69
NoArray == 0
\* no object: an undefined or null reference (resource.parent, a failed lookup)
NoRef == 0
\* an absent moment (start / end not given)
NoMoment == 0

Undefined == [t |-> "undef", s |-> "", n |-> 0]
Str(x) == [t |-> "str", s |-> x, n |-> 0]
Num(k) == [t |-> "num", s |-> "", n |-> k]

\* v != null
NotNull(v) == v.t # "undef"

\* String(v) for a string or a number
String(v) == IF v.t = "num" THEN ToString(v.n) ELSE v.s

\* a raw resource input
Input(id, parentId, children) == [id |-> id, parentId |-> parentId, children |-> children]

\* the callbacks the queue holds: a callback of the caller (one that, when invoked,
\* starts a new fetch, or one that does not), or the closure addResource (line 240)
\* or removeResource (line 305) hands to whenFetchingResolved.  n tells the
\* callbacks of one generation apart: the n-th registered (0: not queued).
UserCallback(refetch) ==
    [k |-> "user", refetch |-> refetch, resourceInput |-> Input(Undefined, Undefined, <<>>),
     hasCallback |-> FALSE, id |-> "", n |-> 0]
AddClosure(resourceInput, hasCallback) ==
    [k |-> "add", refetch |-> FALSE, resourceInput |-> resourceInput,
     hasCallback |-> hasCallback, id |-> "", n |-> 0]
RemoveClosure(id) ==
    [k |-> "remove", refetch |-> FALSE, resourceInput |-> Input(Undefined, Undefined, <<>>),
     hasCallback |-> FALSE, id |-> id, n |-> 0]

\* calendar.opt('resources'), line 92
Source(kind, array) == [kind |-> kind, array |-> array]

\* applyAll is not running
Idle == [g |-> 0, i |-> 0]

\* no public call yet, or one that is neither getResources nor clear
OtherCall ==
    [op |-> "other", start |-> NoMoment, end |-> NoMoment, fetched |-> FALSE, at |-> 0]

\* the last step ran no completion
NoDelivery == [g |-> 0, stale |-> FALSE, resourceInputs |-> <<>>]

\* the manager's fields as one value, so that a method is a function on it
St == [fetchId |-> fetchId,
       isFetchingInitiated |-> isFetchingInitiated,
       isFetchingResolved |-> isFetchingResolved,
       fetchingResourcesCallbacks |-> fetchingResourcesCallbacks,
       callbackArrays |-> callbackArrays,
       currentStart |-> currentStart,
       currentEnd |-> currentEnd,
       topLevelResources |-> topLevelResources,
       resourcesById |-> resourcesById,
       heap |-> heap,
       resourceGuid |-> resourceGuid,
       built |-> built,
       generated |-> generated,
       loading |-> loading,
       outstanding |-> outstanding,
       running |-> running,
       invocations |-> invocations,
       trace |-> <<>>,
       lastCall |-> lastCall,
       delivery |-> NoDelivery]

Commit(m) ==
    /\ fetchId' = m.fetchId
    /\ isFetchingInitiated' = m.isFetchingInitiated
    /\ isFetchingResolved' = m.isFetchingResolved
    /\ fetchingResourcesCallbacks' = m.fetchingResourcesCallbacks
    /\ callbackArrays' = m.callbackArrays
    /\ currentStart' = m.currentStart
    /\ currentEnd' = m.currentEnd
    /\ topLevelResources' = m.topLevelResources
    /\ resourcesById' = m.resourcesById
    /\ heap' = m.heap
    /\ resourceGuid' = m.resourceGuid
    /\ built' = m.built
    /\ generated' = m.generated
    /\ loading' = m.loading
    /\ outstanding' = m.outstanding
    /\ running' = m.running
    /\ invocations' = m.invocations
    /\ trace' = m.trace
    /\ lastCall' = m.lastCall
    /\ delivery' = m.delivery

\* an entry of trace: an event triggered, a callback invoked, an error thrown
Ev(e, a, id, g, i) == [e |-> e, a |-> a, id |-> id, g |-> g, i |-> i]

Emit(m, ev) == [m EXCEPT !.trace = Append(@, ev)]

-----------------------------------------------------------------------------
(* Resource Data Utils *)

RECURSIVE buildResource(_, _, _)
RECURSIVE BuildChildren(_, _, _, _)

\* lines 360-392.  parent is the reference line 387 stores in the built child
\* (NoRef for a top-level input).  Returns the state and the new object.
buildResource(m, resourceInput, parent) ==
    LET id == IF NotNull(resourceInput.id)
              THEN String(resourceInput.id)
              ELSE "_fc" \o ToString(m.resourceGuid)
        ref == Len(m.heap) + 1
        resource == [id |-> id,
                     parentId |-> resourceInput.parentId,
                     parent |-> parent,
                     children |-> <<>>]
        m1 == [m EXCEPT !.heap = Append(@, resource),
                        !.built = @ + 1,
                        !.generated = IF NotNull(resourceInput.id) THEN @ ELSE Append(@, id),
                        !.resourceGuid = IF NotNull(resourceInput.id) THEN @ ELSE @ + 1]
    IN  [m |-> BuildChildren(m1, ref, resourceInput.children, 1), ref |-> ref]

\* lines 385-389: the map over resourceInput.children
BuildChildren(m, ref, childInputs, k) ==
    IF k > Len(childInputs) THEN m
    ELSE LET b == buildResource(m, childInputs[k], ref)
         IN  BuildChildren([b.m EXCEPT !.heap[ref].children = Append(@, b.ref)],
                           ref, childInputs, k + 1)

-----------------------------------------------------------------------------
(* Resource Adding *)

\* lines 166-168: undefined (NoRef) when the id is no key of the index
getResourceById(m, id) ==
    IF id \in DOMAIN m.resourcesById THEN m.resourcesById[id] ELSE NoRef

\* lines 173-181
getFlatResources(m) == {m.resourcesById[id] : id \in DOMAIN m.resourcesById}

\* the {} of line 190
EmptyIndex == [id \in {} |-> NoRef]

\* initializeCache restarting the id generator with the cache
initializeCacheRestartsGuid(m) ==
    [m EXCEPT !.topLevelResources = [isNull |-> FALSE, items |-> <<>>],
              !.resourcesById = EmptyIndex,
              !.heap = <<>>,
              !.resourceGuid = 1]

\* lines 188-191.  The objects of the discarded cache are garbage to the
\* manager, so the heap restarts empty.
initializeCache(m) ==
    [m EXCEPT !.topLevelResources = [isNull |-> FALSE, items |-> <<>>],
              !.resourcesById = EmptyIndex,
              !.heap = <<>>]

\* addResourceToIndex without lines 261-263: the children are not indexed
addResourceToIndexShallow(m, ref) ==
    LET id == m.heap[ref].id IN
    IF getResourceById(m, id) # NoRef
    THEN [m |-> m, ok |-> FALSE]
    ELSE [m |-> [m EXCEPT !.resourcesById = (id :> ref) @@ @], ok |-> TRUE]

RECURSIVE addResourceToIndex(_, _)
RECURSIVE IndexChildren(_, _, _)

\* lines 255-267
addResourceToIndex(m, ref) ==
    LET id == m.heap[ref].id IN
    IF getResourceById(m, id) # NoRef
    THEN [m |-> m, ok |-> FALSE]
    ELSE [m |-> IndexChildren([m EXCEPT !.resourcesById = (id :> ref) @@ @],
                              m.heap[ref].children, 1),
          ok |-> TRUE]

\* lines 261-263: the result of the recursive call is dropped
IndexChildren(m, children, k) ==
    IF k > Len(children) THEN m
    ELSE IndexChildren(addResourceToIndex(m, children[k]).m, children, k + 1)

\* lines 270-291
addResourceToTree(m, ref) ==
    LET resource == m.heap[ref] IN
    IF resource.parent # NoRef
    THEN [m |-> m, ok |-> TRUE]
    ELSE LET parentId == IF NotNull(resource.parentId) THEN String(resource.parentId) ELSE ""
             parent == getResourceById(m, parentId)
         IN  IF parentId # ""
             THEN IF parent # NoRef
                  THEN LET m1 == [m EXCEPT !.heap[ref].parent = parent]
                       IN  [m |-> [m1 EXCEPT !.heap[parent].children = Append(@, ref)],
                            ok |-> TRUE]
                  ELSE [m |-> m, ok |-> FALSE]
             ELSE [m |-> [m EXCEPT !.topLevelResources.items = Append(@, ref)],
                   ok |-> TRUE]

RECURSIVE BuildAll(_, _, _)
RECURSIVE IndexAll(_, _, _)
RECURSIVE AttachAll(_, _, _)

\* the array `resources` with one more built resource
Collect(resources, b) == [m |-> b.m, resources |-> Append(resources, b.ref)]

\* lines 199-201: every input is built before any is indexed
BuildAll(x, resourceInputs, k) ==
    IF k > Len(resourceInputs) THEN x
    ELSE BuildAll(Collect(x.resources, buildResource(x.m, resourceInputs[k], NoRef)),
                  resourceInputs, k + 1)

\* lines 206-208: a resource the index took is valid
Keep(validResources, a, resource) ==
    [m |-> a.m,
     validResources |-> IF a.ok THEN Append(validResources, resource) ELSE validResources]

\* a resource the index took is attached at once
AttachIfKept(a, resource) ==
    [m |-> IF a.ok THEN addResourceToTree(a.m, resource).m ELSE a.m,
     validResources |-> <<>>]

RECURSIVE IndexAllAttaching(_, _, _)
\* lines 203-213 as one loop: each resource is attached as soon as it is indexed
IndexAllAttaching(x, resources, k) ==
    IF k > Len(resources) THEN x
    ELSE IndexAllAttaching(AttachIfKept(addResourceToIndex(x.m, resources[k]),
                                        resources[k]),
                           resources, k + 1)

\* lines 203-209
IndexAll(x, resources, k) ==
    IF k > Len(resources) THEN x
    ELSE IndexAll(Keep(x.validResources, addResourceToIndex(x.m, resources[k]),
                       resources[k]),
                  resources, k + 1)

\* lines 211-213: the result of addResourceToTree is dropped
AttachAll(m, validResources, k) ==
    IF k > Len(validResources) THEN m
    ELSE AttachAll(addResourceToTree(m, validResources[k]).m, validResources, k + 1)

\* lines 203-209, on what lines 199-201 built
IndexBuilt(x) == IndexAll([m |-> x.m, validResources |-> <<>>], x.resources, 1)

\* lines 211-213, on what lines 203-209 kept
AttachValid(x) == AttachAll(x.m, x.validResources, 1)

\* lines 215-221.  The events carry this.topLevelResources: i is the length the
\* list has when the event is triggered.
SetEvents(m, wasSet) ==
    Emit(Emit(m, Ev(IF wasSet THEN "reset" ELSE "set", NoRef, "", 0,
                    Len(m.topLevelResources.items))),
         Ev("resourcesSet", NoRef, "", 0, Len(m.topLevelResources.items)))

\* setResources with lines 215-221 moved before lines 211-213: the events are
\* triggered on the tree as initializeCache left it
setResourcesEventsFirst(m, resourceInputs) ==
    AttachValid([IndexBuilt(BuildAll([m |-> initializeCache(m), resources |-> <<>>],
                                     resourceInputs, 1))
                    EXCEPT !.m = SetEvents(@, ~m.topLevelResources.isNull)])

\* lines 194-222
setResources(m, resourceInputs) ==
    SetEvents(AttachValid(IndexBuilt(
                  BuildAll([m |-> initializeCache(m), resources |-> <<>>],
                           resourceInputs, 1))),
              \* line 196: wasSet, of the cache as it was
              ~m.topLevelResources.isNull)

\* clear without line 233: the cache is discarded, isFetchingInitiated is kept
clearKeepsInitiated(m) ==
    [m EXCEPT !.topLevelResources = [isNull |-> TRUE, items |-> <<>>]]

\* lines 232-235
clear(m) ==
    [m EXCEPT !.isFetchingInitiated = FALSE,
              !.topLevelResources = [isNull |-> TRUE, items |-> <<>>]]

-----------------------------------------------------------------------------
(* Resource Removing *)

RECURSIVE removeResourceFromIndex(_, _)
RECURSIVE UnindexChildren(_, _, _)

\* lines 319-333: resource is NoRef where the code returns false
removeResourceFromIndex(m, resourceId) ==
    LET resource == getResourceById(m, resourceId) IN
    IF resource # NoRef
    THEN LET m1 == [m EXCEPT !.resourcesById =
                        [id \in (DOMAIN @) \ {resourceId} |-> @[id]]]
         IN  [m |-> UnindexChildren(m1, m.heap[resource].children, 1),
              resource |-> resource]
    ELSE [m |-> m, resource |-> NoRef]

\* lines 325-327: by the id of each child
UnindexChildren(m, children, k) ==
    IF k > Len(children) THEN m
    ELSE UnindexChildren(removeResourceFromIndex(m, m.heap[children[k]].id).m,
                         children, k + 1)

\* the array `siblings` of line 336: the top-level list, or the children of owner
Siblings(m, owner) ==
    IF owner = NoRef THEN m.topLevelResources.items ELSE m.heap[owner].children

\* siblings.splice(i, 1), line 343
Splice(s, i) == SubSeq(s, 1, i - 1) \o SubSeq(s, i + 1, Len(s))

RECURSIVE removeResourceFromTree(_, _, _, _)

\* lines 336-353, from index i of the siblings of owner on
removeResourceFromTree(m, resource, owner, i) ==
    LET siblings == Siblings(m, owner) IN
    IF i > Len(siblings) THEN [m |-> m, ok |-> FALSE]
    ELSE IF siblings[i] = resource
         THEN LET m1 == [m EXCEPT !.heap[resource].parent = NoRef]
              IN  [m |-> IF owner = NoRef
                         THEN [m1 EXCEPT !.topLevelResources.items = Splice(@, i)]
                         ELSE [m1 EXCEPT !.heap[owner].children = Splice(@, i)],
                   ok |-> TRUE]
         ELSE LET below == removeResourceFromTree(m, resource, siblings[i], 1)
              IN  IF below.ok THEN below
                  ELSE removeResourceFromTree(m, resource, owner, i + 1)

-----------------------------------------------------------------------------
(* Resource Data Getting *)

\* the callback of lines 66-72 without the test of line 66: every completion is
\* taken for the current one
fetchCompletionUnguarded(m, currentFetchId, resourceInputs) ==
    LET m1 == setResources(m, resourceInputs)
        m2 == Emit([m1 EXCEPT !.isFetchingResolved = TRUE],
                   Ev("isFetchingResolved", NoRef, "", currentFetchId, 0))
        m3 == [m2 EXCEPT !.fetchingResourcesCallbacks = NoArray]
    IN  [m3 EXCEPT !.running = [g |-> currentFetchId, i |-> 1],
                   !.delivery = [g |-> currentFetchId, stale |-> FALSE,
                                 resourceInputs |-> resourceInputs]]

\* the callback of lines 66-72 without the applyAll of line 71: the cache is set
\* and the fetch is resolved, the callbacks of the array are never invoked
fetchCompletionWithoutApplyAll(m, currentFetchId, resourceInputs) ==
    IF currentFetchId = m.fetchId
    THEN LET m1 == setResources(m, resourceInputs)
             m2 == Emit([m1 EXCEPT !.isFetchingResolved = TRUE],
                        Ev("isFetchingResolved", NoRef, "", currentFetchId, 0))
         IN  [m2 EXCEPT !.fetchingResourcesCallbacks = NoArray,
                        !.callbackArrays[currentFetchId] = <<>>,
                        !.delivery = [g |-> currentFetchId, stale |-> FALSE,
                                      resourceInputs |-> resourceInputs]]
    ELSE [m EXCEPT !.callbackArrays[currentFetchId] = <<>>,
                   !.delivery = [g |-> currentFetchId, stale |-> TRUE,
                                 resourceInputs |-> resourceInputs]]

\* lines 66-72, the callback fetchResources hands to fetchResourceInputs, for the
\* fetch numbered currentFetchId.  applyAll (line 71) starts at the first callback
\* of the array the closure captured.
fetchCompletion(m, currentFetchId, resourceInputs) ==
    IF currentFetchId = m.fetchId
    THEN LET m1 == setResources(m, resourceInputs)
             m2 == Emit([m1 EXCEPT !.isFetchingResolved = TRUE],
                        Ev("isFetchingResolved", NoRef, "", currentFetchId, 0))
             m3 == [m2 EXCEPT !.fetchingResourcesCallbacks = NoArray]
         IN  [m3 EXCEPT !.running = [g |-> currentFetchId, i |-> 1],
                        !.delivery = [g |-> currentFetchId, stale |-> FALSE,
                                      resourceInputs |-> resourceInputs]]
    ELSE \* nothing runs; the closure and the array it captured are garbage now
         [m EXCEPT !.callbackArrays[currentFetchId] = <<>>,
                   !.delivery = [g |-> currentFetchId, stale |-> TRUE,
                                 resourceInputs |-> resourceInputs]]

\* lines 90-163.  An array (lines 99-100) and any other shape (lines 160-161)
\* complete at once; a function (lines 102-108) and a remote descriptor
\* (lines 110-159) push the loading counter and complete later.
fetchResourceInputs(m, currentFetchId, source) ==
    LET m0 == Emit(m, Ev("fetchResourceInputs", NoRef, "", currentFetchId, 0)) IN
    CASE source.kind = "array" -> fetchCompletion(m0, currentFetchId, source.array)
      [] source.kind \in {"function", "object"} ->
            [m0 EXCEPT !.loading = @ + 1,
                       !.outstanding = @ \cup {currentFetchId}]
      [] OTHER -> fetchCompletion(m0, currentFetchId, <<>>)

\* lines 58-74
fetchResources(m, start, end, callback, source) ==
    LET currentFetchId == m.fetchId + 1
        m1 == [m EXCEPT !.fetchId = currentFetchId,
                        !.isFetchingInitiated = TRUE,
                        !.isFetchingResolved = FALSE,
                        !.fetchingResourcesCallbacks = currentFetchId,
                        !.callbackArrays = Append(@, <<[callback EXCEPT !.n = 1]>>),
                        !.invocations = Append(@, <<0>>)]
    IN  fetchResourceInputs(m1, currentFetchId, source)

\* the closure of addResource without the test of line 242: the resource is
\* attached and announced whatever addResourceToIndex returned
addResourceNowUnchecked(m, resourceInput, hasCallback) ==
    LET b == buildResource(m, resourceInput, NoRef)
        a == addResourceToIndex(b.m, b.ref)
        id == b.m.heap[b.ref].id
        m1 == Emit(addResourceToTree(a.m, b.ref).m, Ev("add", b.ref, id, 0, 0))
    IN  IF hasCallback THEN Emit(m1, Ev("addCallback", b.ref, id, 0, 0)) ELSE m1

\* lines 241-249, the closure of addResource
addResourceNow(m, resourceInput, hasCallback) ==
    LET b == buildResource(m, resourceInput, NoRef)
        a == addResourceToIndex(b.m, b.ref)
    IN  IF a.ok
        THEN LET id == b.m.heap[b.ref].id
                 m1 == Emit(addResourceToTree(a.m, b.ref).m, Ev("add", b.ref, id, 0, 0))
             IN  IF hasCallback THEN Emit(m1, Ev("addCallback", b.ref, id, 0, 0)) ELSE m1
        ELSE \* the rejected objects are garbage
             [a.m EXCEPT !.heap = m.heap]

\* the closure of removeResource without the test of line 308: `remove` is
\* triggered whatever removeResourceFromIndex returned
removeResourceNowUnchecked(m, id) ==
    LET r == removeResourceFromIndex(m, id) IN
    Emit(IF r.resource # NoRef
         THEN removeResourceFromTree(r.m, r.resource, NoRef, 1).m
         ELSE r.m,
         Ev("remove", r.resource, id, 0, 0))

\* lines 306-313, the closure of removeResource
removeResourceNow(m, id) ==
    LET r == removeResourceFromIndex(m, id) IN
    IF r.resource # NoRef
    THEN Emit(removeResourceFromTree(r.m, r.resource, NoRef, 1).m,
              Ev("remove", r.resource, id, 0, 0))
    ELSE r.m

\* the id an invoked closure is about: the id its raw input gives (none: ""), or
\* the key it removes
Subject(callback) ==
    CASE callback.k = "add" ->
            IF NotNull(callback.resourceInput.id) THEN String(callback.resourceInput.id)
            ELSE ""
      [] callback.k = "remove" -> callback.id
      [] OTHER -> ""

\* one callback invoked: by applyAll as callback i of generation g (line 71), or
\* at once by whenFetchingResolved (line 79; g = 0).  A refetching callback of the
\* caller calls fetchResources, with a function as the source.
invoke(m, callback, g, i) ==
    LET m1 == Emit(m, Ev(CASE callback.k = "add" -> "addClosure"
                           [] callback.k = "remove" -> "removeClosure"
                           [] OTHER -> "callback",
                         NoRef, Subject(callback), g, i)) IN
    CASE callback.k = "add" ->
            addResourceNow(m1, callback.resourceInput, callback.hasCallback)
      [] callback.k = "remove" -> removeResourceNow(m1, callback.id)
      [] OTHER ->
            IF callback.refetch
            THEN fetchResources(m1, NoMoment, NoMoment, UserCallback(FALSE),
                                Source("function", <<>>))
            ELSE m1

\* whenFetchingResolved with unshift in place of the push of line 82
whenFetchingResolvedUnshift(m, callback) ==
    IF m.isFetchingResolved
    THEN invoke(m, callback, 0, 0)
    ELSE IF m.fetchingResourcesCallbacks = NoArray
         THEN Emit(m, Ev("TypeError", NoRef, "", 0, 0))
         ELSE LET g == m.fetchingResourcesCallbacks
                  n == Len(m.invocations[g]) + 1
              IN  [m EXCEPT !.callbackArrays[g] = <<[callback EXCEPT !.n = n]>> \o @,
                            !.invocations[g] = Append(@, 0)]

\* lines 77-83.  push on undefined or null throws a TypeError.
whenFetchingResolved(m, callback) ==
    IF m.isFetchingResolved
    THEN invoke(m, callback, 0, 0)
    ELSE IF m.fetchingResourcesCallbacks = NoArray
         THEN Emit(m, Ev("TypeError", NoRef, "", 0, 0))
         ELSE LET g == m.fetchingResourcesCallbacks
                  n == Len(m.invocations[g]) + 1
              IN  [m EXCEPT !.callbackArrays[g] = Append(@, [callback EXCEPT !.n = n]),
                            !.invocations[g] = Append(@, 0)]

\* a.isSame(b) of two moments
isSame(a, b) == a = b

\* lines 42-44: a moment is truthy, undefined is not
isSameRange(m, start, end) ==
    \/ (start = NoMoment /\ m.currentStart = NoMoment)
    \/ (/\ start # NoMoment
        /\ m.currentStart # NoMoment
        /\ isSame(start, m.currentStart)
        /\ isSame(end, m.currentEnd))

\* lines 41-51
getResources(m, start, end, callback, source) ==
    IF ~m.isFetchingInitiated \/ ~isSameRange(m, start, end)
    THEN fetchResources(m, start, end, callback, source)
    ELSE whenFetchingResolved(m, callback)

\* lines 238-252
addResource(m, resourceInput, hasCallback) ==
    IF m.isFetchingInitiated
    THEN whenFetchingResolved(m, AddClosure(resourceInput, hasCallback))
    ELSE m

\* lines 298-316: idOrResource is an id, used as a key of the index
removeResource(m, idOrResource) ==
    IF m.isFetchingInitiated
    THEN whenFetchingResolved(m, RemoveClosure(String(idOrResource)))
    ELSE m

-----------------------------------------------------------------------------
(* Bounds of the model *)

\* fetch generations started
MaxFetch == 2
\* callbacks in the array of one generation
MaxQueue == 2
\* resource objects built over the run
MaxBuilt == 3

RECURSIVE Records(_, _)
\* the records of a list of raw inputs, nested ones included, from index k on
Records(resourceInputs, k) ==
    IF k > Len(resourceInputs) THEN 0
    ELSE 1 + Records(resourceInputs[k].children, 1) + Records(resourceInputs, k + 1)

\* the callbacks that may still be invoked: the rest of the batch applyAll is
\* invoking, and the queue of the fetch in flight
Live(m) ==
    (IF m.running.g = 0 THEN <<>>
     ELSE SubSeq(m.callbackArrays[m.running.g], m.running.i,
                 Len(m.callbackArrays[m.running.g])))
    \o (IF m.fetchingResourcesCallbacks = NoArray THEN <<>>
        ELSE m.callbackArrays[m.fetchingResourcesCallbacks])

RECURSIVE Demand(_, _, _)
\* what the callbacks cbs[k..] will add to a counter when they run
Demand(cbs, what, k) ==
    IF k > Len(cbs) THEN 0
    ELSE (CASE what = "fetch" -> IF cbs[k].k = "user" /\ cbs[k].refetch THEN 1 ELSE 0
            [] OTHER -> IF cbs[k].k = "add"
                        THEN Records(<<cbs[k].resourceInput>>, 1) ELSE 0)
         + Demand(cbs, what, k + 1)

\* the counters stay within the bounds, now and when the live callbacks have run
Within(m) ==
    /\ m.fetchId + Demand(Live(m), "fetch", 1) <= MaxFetch
    /\ \A g \in DOMAIN m.callbackArrays : Len(m.callbackArrays[g]) <= MaxQueue
    /\ m.built + Demand(Live(m), "built", 1) <= MaxBuilt

-----------------------------------------------------------------------------
(* Inputs of the model *)

\* ids as the caller writes them: absent, the number 1 beside the string "1", and
\* a string of the form of the ids line 367 generates
RawIds == {Undefined, Str("1"), Num(1), Str("_fc1")}
ParentIds == {Undefined, Str("1")}
ChildInputs == {Input(id, Undefined, <<>>) : id \in RawIds}
\* inputs without children (one object) and with one child (two objects)
Leaves == {Input(id, parentId, <<>>) : id \in RawIds, parentId \in ParentIds}
Parents == {Input(id, parentId, <<c>>) :
               id \in RawIds, parentId \in ParentIds, c \in ChildInputs}
\* the inputs that build at most n objects
InputsUpTo(n) ==
    (IF n >= 1 THEN Leaves ELSE {}) \cup (IF n >= 2 THEN Parents ELSE {})
\* the lists of at most two inputs that build at most n objects
BatchesUpTo(n) ==
    {<<>>}
    \cup (IF n >= 1 THEN {<<a>> : a \in Leaves} ELSE {})
    \cup (IF n >= 2 THEN {<<a>> : a \in Parents} \cup {<<a, b>> : a \in Leaves, b \in Leaves}
          ELSE {})
    \cup (IF n >= 3 THEN {<<a, b>> : a \in Leaves, b \in Parents}
                         \cup {<<a, b>> : a \in Parents, b \in Leaves}
          ELSE {})
    \cup (IF n >= 4 THEN {<<a, b>> : a \in Parents, b \in Parents} ELSE {})

\* the few lists and inputs the runs about fetching use
PlainInputs == {Input(Str("a"), Undefined, <<>>)}
PlainBatches == {<<>>, <<Input(Str("a"), Undefined, <<>>)>>}

Ranges == {<<NoMoment, NoMoment>>, <<1, 2>>, <<2, 3>>}
RemovableIds == {Str("1"), Num(1), Str("_fc1")}

-----------------------------------------------------------------------------
(* The state machine *)

\* lines 17-31: the field initializers, then the constructor's initializeCache()
Init ==
    /\ fetchId = 0
    /\ isFetchingInitiated = FALSE
    /\ isFetchingResolved = FALSE
    /\ fetchingResourcesCallbacks = NoArray
    /\ callbackArrays = <<>>
    /\ currentStart = NoMoment
    /\ currentEnd = NoMoment
    /\ topLevelResources = [isNull |-> FALSE, items |-> <<>>]
    /\ resourcesById = EmptyIndex
    /\ heap = <<>>
    /\ resourceGuid = 1
    /\ built = 0
    /\ generated = <<>>
    /\ loading = 0
    /\ outstanding = {}
    /\ running = Idle
    /\ invocations = <<>>
    /\ trace = <<>>
    /\ lastCall = OtherCall
    /\ delivery = NoDelivery

\* the step resolved the source (called fetchResourceInputs)
Fetched(m) == \E k \in DOMAIN m.trace : m.trace[k].e = "fetchResourceInputs"

\* a public call returns: it becomes the last call (at: the fetch generation then)
Called(m, op, id, start, end) ==
    [m EXCEPT !.lastCall =
        IF op = "getResources"
        THEN [op |-> op, start |-> start, end |-> end, fetched |-> Fetched(m),
              at |-> m.fetchId]
        ELSE IF op = "clear" THEN [OtherCall EXCEPT !.op = op, !.at = m.fetchId]
        ELSE OtherCall,
              !.trace = <<Ev(op, NoRef, id, 0, 0)>> \o @]

\* a step of the single thread: only when applyAll is not in the middle of a batch
\* (the result of the handler is evaluated once)
Perform(m) == running = Idle /\ \E x \in {m} : Within(x) /\ Commit(x)

CallGetResources(start, end, callback, source) ==
    Perform(Called(getResources(St, start, end, callback, source),
                   "getResources", "", start, end))

CallFetchResources(start, end, callback, source) ==
    Perform(Called(fetchResources(St, start, end, callback, source),
                   "fetchResources", "", start, end))

CallWhenFetchingResolved(callback) ==
    Perform(Called(whenFetchingResolved(St, callback),
                   "whenFetchingResolved", "", NoMoment, NoMoment))

CallAddResource(resourceInput, hasCallback) ==
    Perform(Called(addResource(St, resourceInput, hasCallback),
                   "addResource", Subject(AddClosure(resourceInput, hasCallback)),
                   NoMoment, NoMoment))

CallRemoveResource(idOrResource) ==
    Perform(Called(removeResource(St, idOrResource),
                   "removeResource", String(idOrResource), NoMoment, NoMoment))

CallClear ==
    Perform(Called(clear(St), "clear", "", NoMoment, NoMoment))

\* the completion with popLoading (line 106, line 136) moved behind the test of
\* line 66: a stale completion leaves the loading counter as it is
SourceCompletesPopsWhenCurrent(g, resourceInputs) ==
    /\ g \in outstanding
    /\ Perform(fetchCompletion([St EXCEPT !.loading = IF g = fetchId THEN @ - 1 ELSE @,
                                          !.outstanding = @ \ {g},
                                          !.trace = <<Ev("completion", NoRef, "", g, 0)>>],
                               g, resourceInputs))

\* the source completes the resolution of generation g: lines 105-108, or
\* lines 133-159 (a failed request delivers the empty list, line 157)
SourceCompletes(g, resourceInputs) ==
    /\ g \in outstanding
    /\ Perform(fetchCompletion([St EXCEPT !.loading = @ - 1,
                                          !.outstanding = @ \ {g},
                                          !.trace = <<Ev("completion", NoRef, "", g, 0)>>],
                               g, resourceInputs))

\* applyAll (line 71) has invoked callback i of the batch of generation g, the
\* n-th registered: on to the next one; after the last one the array is garbage
Advance(m, g, i, n) ==
    IF i + 1 > Len(m.callbackArrays[g])
    THEN [m EXCEPT !.invocations[g][n] = @ + 1,
                   !.running = Idle,
                   !.callbackArrays[g] = <<>>]
    ELSE [m EXCEPT !.invocations[g][n] = @ + 1,
                   !.running = [g |-> g, i |-> i + 1]]

\* applyAll (line 71) invokes the next callback of the batch
InvokeNext ==
    /\ running # Idle
    /\ \E x \in {Advance(invoke(St, callbackArrays[running.g][running.i],
                                 running.g, running.i),
                          running.g, running.i, callbackArrays[running.g][running.i].n)} :
          Commit(x)

\* what is left of MaxBuilt
Room == MaxBuilt - built

\* fetching: every way to start a fetch, to wait for it and to discard the cache,
\* with every kind of source
Next ==
    \/ \E r \in Ranges,
          source \in {Source("array", b) : b \in PlainBatches}
                     \cup {Source(k, <<>>) : k \in {"function", "object", "other"}} :
          CallGetResources(r[1], r[2], UserCallback(FALSE), source)
    \/ \E source \in {Source("array", <<>>), Source("function", <<>>)} :
          CallFetchResources(NoMoment, NoMoment, UserCallback(FALSE), source)
    \/ \E refetch \in BOOLEAN : CallWhenFetchingResolved(UserCallback(refetch))
    \/ CallClear
    \/ \E g \in outstanding, resourceInputs \in PlainBatches :
          SourceCompletes(g, resourceInputs)
    \/ InvokeNext

Spec == Init /\ [][Next]_vars

\* editing: addResource and removeResource around the fetches of a function
\* source, with callbacks that start a new fetch
NextEdit ==
    \/ \E refetch \in BOOLEAN :
          CallFetchResources(NoMoment, NoMoment, UserCallback(refetch),
                             Source("function", <<>>))
    \/ CallWhenFetchingResolved(UserCallback(TRUE))
    \/ \E resourceInput \in PlainInputs : CallAddResource(resourceInput, TRUE)
    \/ CallRemoveResource(Str("a"))
    \/ \E g \in outstanding, resourceInputs \in PlainBatches :
          SourceCompletes(g, resourceInputs)
    \/ InvokeNext

SpecEdit == Init /\ [][NextEdit]_vars

\* fetching and editing under the scheduling of the single thread: applyAll
\* (line 71) is a loop that runs on to the end of the batch, and every
\* resolution a source was asked for calls back (lines 105-108, lines 133-159)
NextLive ==
    \/ \E refetch \in BOOLEAN :
          CallFetchResources(NoMoment, NoMoment, UserCallback(refetch),
                             Source("function", <<>>))
    \/ \E resourceInput \in PlainInputs : CallAddResource(resourceInput, TRUE)
    \/ CallRemoveResource(Str("a"))
    \/ \E g \in outstanding, resourceInputs \in PlainBatches :
          SourceCompletes(g, resourceInputs)
    \/ InvokeNext

SpecLive ==
    /\ Init /\ [][NextLive]_vars
    /\ WF_vars(InvokeNext)
    /\ \A g \in 1..MaxFetch :
          WF_vars(\E resourceInputs \in PlainBatches : SourceCompletes(g, resourceInputs))

\* the cache: every list of resources, delivered by one fetch at a time of a function
\* source, and edited once loaded
NextData ==
    \/ /\ outstanding = {}
       /\ CallFetchResources(NoMoment, NoMoment, UserCallback(FALSE),
                             Source("function", <<>>))
    \/ /\ isFetchingResolved
       /\ \E resourceInput \in InputsUpTo(Room) : CallAddResource(resourceInput, TRUE)
    \/ /\ isFetchingResolved
       /\ \E id \in RemovableIds : CallRemoveResource(id)
    \/ \E g \in outstanding, resourceInputs \in BatchesUpTo(Room) :
          SourceCompletes(g, resourceInputs)
    \/ InvokeNext

SpecData == Init /\ [][NextData]_vars

-----------------------------------------------------------------------------
(* What the properties below read off a state *)

\* the trace tr holds an entry named e
Emitted(tr, e) == \E k \in DOMAIN tr : tr[k].e = e

\* the entry records a callback being invoked
IsInvocation(ev) == ev.e \in {"callback", "addClosure", "removeClosure"}

RECURSIVE Descend(_, _)
\* the objects within n `children` links of the objects S
Descend(S, n) ==
    IF n = 0 THEN S
    ELSE Descend(S \cup UNION {{heap[r].children[k] : k \in DOMAIN heap[r].children} :
                                  r \in S},
                 n - 1)

\* the resources reachable from topLevelResources by following children
Reachable ==
    Descend({topLevelResources.items[k] : k \in DOMAIN topLevelResources.items},
            Len(heap))

\* the nodes of the tree whose id is id
NodesWithId(id) == {r \in Reachable : heap[r].id = id}

RECURSIVE GivenIds(_, _)
\* the ids the records of a list of raw inputs give, nested ones included, as
\* the caller wrote them
GivenIds(resourceInputs, k) ==
    IF k > Len(resourceInputs) THEN <<>>
    ELSE (IF NotNull(resourceInputs[k].id) THEN <<resourceInputs[k].id>> ELSE <<>>)
         \o GivenIds(resourceInputs[k].children, 1)
         \o GivenIds(resourceInputs, k + 1)

\* no two entries of the sequence are equal
PairwiseDistinct(seq) ==
    \A i, j \in DOMAIN seq : i # j => seq[i] # seq[j]

\* the last step ran the completion of the current generation (setResources has
\* just returned and no callback has been invoked yet)
Loaded == delivery.g # 0 /\ ~delivery.stale

-----------------------------------------------------------------------------
(* C1 *)

-----------------------------------------------------------------------------
(* C2 *)

\* both absent, or both present with equal start and equal end
CalendarEqual(a, b) ==
    \/ a.start = NoMoment /\ b.start = NoMoment
    \/ a.start # NoMoment /\ b.start # NoMoment /\ a.start = b.start /\ a.end = b.end

\* C2: of two getResources calls in a row, the first of which resolved the
\* source, the second resolves the source again exactly when its range is not
\* calendar-equal to the first's (so equal ranges give one resolution, different
\* ranges two).
C2_RangeReuse ==
    [][(/\ Len(trace') > 0
        /\ trace'[1].e = "getResources"
        /\ lastCall.op = "getResources"
        /\ lastCall.fetched) =>
            (lastCall'.fetched <=> ~CalendarEqual(lastCall, lastCall'))]_vars

-----------------------------------------------------------------------------
(* C3 *)

\* no earlier generation was completed as the current one (its first callback,
\* which every generation has, was never invoked)
FirstLoad == \A g \in 1..(delivery.g - 1) : invocations[g][1] = 0

\* C3: on a freshly constructed manager the first completion of a current
\* generation emits `set` and not `reset`; every later one emits `reset` and
\* not `set`.
C3_SetThenReset ==
    Loaded =>
        IF FirstLoad
        THEN Emitted(trace, "set") /\ ~Emitted(trace, "reset")
        ELSE Emitted(trace, "reset") /\ ~Emitted(trace, "set")

-----------------------------------------------------------------------------
(* C4 *)

\* C4: the set of resources in the index equals the set of resources reachable
\* from topLevelResources by following children, in every state.
C4_IndexEqualsTree == getFlatResources(St) = Reachable

-----------------------------------------------------------------------------
(* C5 *)

\* the ids, as strings, that two or more records of the list give
SharedIds(resourceInputs) ==
    LET ids == GivenIds(resourceInputs, 1)
    IN  {String(ids[i]) : i \in {i \in DOMAIN ids :
                                    \E j \in DOMAIN ids : j # i /\ String(ids[j]) = String(ids[i])}}

\* C5: when setResources was given two records sharing an id (both at the top
\* level, or one nested as a child), exactly one resource with that id is in the
\* index and exactly one node of the tree has that id; and the tree never holds
\* two nodes with one id, whatever addResource supplied later.
C5_OneResourcePerId ==
    /\ Loaded =>
          \A id \in SharedIds(delivery.resourceInputs) :
              /\ id \in DOMAIN resourcesById
              /\ Cardinality(NodesWithId(id)) = 1
    /\ \A r \in Reachable : Cardinality(NodesWithId(heap[r].id)) = 1

-----------------------------------------------------------------------------
(* C6 *)

\* what setResources has to give for the list it was handed: as many resources
\* as the list has records, each one found under its own id
CacheIsTheBatch ==
    /\ Cardinality(getFlatResources(St)) = Records(delivery.resourceInputs, 1)
    /\ \A r \in getFlatResources(St) : getResourceById(St, heap[r].id) = r

\* the ids of the resources built from the list (the heap holds exactly these
\* when setResources returns): String(id), or the generated id
BuiltIds == [r \in DOMAIN heap |-> heap[r].id]

\* C6 as stated: for every list of raw inputs whose ids, as the caller wrote
\* them, are pairwise distinct, after setResources getFlatResources has as many
\* resources as the list has records and getResourceById(r.id) is r for each.
C6_DistinctRawIds ==
    (Loaded /\ PairwiseDistinct(GivenIds(delivery.resourceInputs, 1))) =>
        CacheIsTheBatch

\* C6, amended: for every list of raw inputs whose resource ids (String(id) for
\* a record that gives an id, the generated id for one that does not) are
\* pairwise distinct, after setResources getFlatResources has as many resources
\* as the list has records, whatever the cache held before, and
\* getResourceById(r.id) is r for each.
C6_DistinctResourceIds ==
    (Loaded /\ PairwiseDistinct(BuiltIds)) => CacheIsTheBatch

\* C6, witness: a list of two records, one nested, with distinct ids has just
\* replaced a cache that held a resource
C6_NestedBatchReplacesCache ==
    /\ Loaded
    /\ PairwiseDistinct(BuiltIds)
    /\ Len(delivery.resourceInputs) = 1
    /\ Len(delivery.resourceInputs[1].children) = 1
    /\ built > Records(delivery.resourceInputs, 1)
    /\ Cardinality(getFlatResources(St)) = 2

-----------------------------------------------------------------------------
(* C7 *)

\* C7: the callbacks registered for a generation are invoked in the order of
\* their registration (whenever the n-th has been invoked, so has the one before
\* it), each at most once over the run, and within the one completion step: from
\* the start of a batch to its end every step invokes a callback of that batch,
\* and at its end every callback of the generation has been invoked.
C7_RegistrationOrder ==
    /\ [](\A g \in DOMAIN invocations : \A n \in DOMAIN invocations[g] :
            /\ invocations[g][n] <= 1
            /\ (n > 1 /\ invocations[g][n] = 1) => invocations[g][n - 1] = 1)
    /\ [][running # Idle =>
            /\ IsInvocation(trace'[1])
            /\ trace'[1].g = running.g
            /\ running' # Idle => running'.g = running.g
            /\ running' = Idle =>
                  \A n \in DOMAIN invocations'[running.g] :
                      invocations'[running.g][n] = 1]_vars

\* C7, witness: a batch of two callbacks has just ended with the closure of an
\* addResource call that was queued behind the fetch's own callback
C7_BatchOfTwoDone ==
    /\ running = Idle
    /\ Len(trace) > 0 /\ trace[1].e = "addClosure" /\ trace[1].g > 0 /\ trace[1].i = 2
    /\ invocations[trace[1].g] = <<1, 1>>

-----------------------------------------------------------------------------
(* C8 *)

\* C8: an addResource or removeResource is applied (a resource added or removed)
\* only when isFetchingResolved is true, also in the states reached when a
\* queued callback starts a new fetch.
C8_EditsOnlyWhenResolved ==
    (Emitted(trace, "add") \/ Emitted(trace, "remove")) => isFetchingResolved

-----------------------------------------------------------------------------
(* C9 *)

\* C9: when the closure of addResource runs with a raw input whose id is in the
\* index, the index and the tree (and every resource object) are unchanged, no
\* `add` event is triggered and the caller's callback is not invoked.
C9_DuplicateAddRejected ==
    [][\A k \in DOMAIN trace' :
          (trace'[k].e = "addClosure" /\ trace'[k].id \in DOMAIN resourcesById) =>
              /\ UNCHANGED <<resourcesById, topLevelResources, heap>>
              /\ ~Emitted(trace', "add")
              /\ ~Emitted(trace', "addCallback")]_vars

\* C9, witness: an addResource queued during a fetch has just run, after the
\* fetch delivered a resource with the same id, and nothing was added
C9_QueuedDuplicateDropped ==
    /\ \E k \in DOMAIN trace :
          /\ trace[k].e = "addClosure" /\ trace[k].g > 0
          /\ trace[k].id \in DOMAIN resourcesById
    /\ ~Emitted(trace, "add")
    /\ Len(topLevelResources.items) = 1

-----------------------------------------------------------------------------
(* C10 *)

\* C10: a removeResource with an id that is not in the index, at the call and
\* when its closure runs, leaves the index and the tree (and every resource
\* object) unchanged and triggers no `remove` event.
C10_AbsentRemoveIsNoOp ==
    [][\A k \in DOMAIN trace' :
          (/\ trace'[k].e \in {"removeResource", "removeClosure"}
           /\ trace'[k].id \notin DOMAIN resourcesById) =>
              /\ UNCHANGED <<resourcesById, topLevelResources, heap>>
              /\ ~Emitted(trace', "remove")]_vars

\* C10, witness: a removeResource queued during a fetch has just run on a cache
\* that does not hold its id, and nothing was removed
C10_QueuedAbsentRemove ==
    /\ \E k \in DOMAIN trace :
          /\ trace[k].e = "removeClosure" /\ trace[k].g > 0
          /\ trace[k].id \notin DOMAIN resourcesById
    /\ ~Emitted(trace, "remove")

-----------------------------------------------------------------------------
(* C11 *)

\* C11: a getResources call that is the next public call after clear(), no
\* callback having started a fetch in between, starts a new fetch generation
\* and resolves the source, whatever its range and whatever was fetched before
\* (also when a fetch that was in flight at the clear() has completed in
\* between).
C11_FetchAfterClear ==
    [][(/\ Len(trace') > 0
        /\ trace'[1].e = "getResources"
        /\ lastCall.op = "clear"
        /\ lastCall.at = fetchId) =>
            /\ fetchId' = fetchId + 1
            /\ lastCall'.fetched
            /\ isFetchingInitiated']_vars

\* C11, witness: the second fetch was started by a getResources call without a
\* range on a cache that clear() discarded and nothing has loaded since
C11_RefetchedAfterClear ==
    /\ Len(trace) > 0 /\ trace[1].e = "getResources"
    /\ lastCall.op = "getResources" /\ lastCall.fetched /\ lastCall.start = NoMoment
    /\ fetchId = 2
    /\ topLevelResources.isNull

-----------------------------------------------------------------------------
(* C12 *)

\* C12: whenFetchingResolved raises no error in any reachable state: no step
\* throws a TypeError.
C12_WhenFetchingResolvedNeverThrows == ~Emitted(trace, "TypeError")

-----------------------------------------------------------------------------
(* C13 *)

\* C13: the ids generated for raw inputs that lack an id are pairwise distinct
\* over the whole run, and the generator counter never decreases.
C13_GeneratedIdsDistinct ==
    /\ [](PairwiseDistinct(generated))
    /\ [][resourceGuid' >= resourceGuid]_vars

\* C13, witness: the second setResources has just built one resource without an
\* id, after an id had been generated for an earlier cache
C13_GeneratedAcrossResets ==
    /\ Loaded /\ delivery.g = 2
    /\ Len(generated) = 2
    /\ Len(heap) = 1 /\ heap[1].id = generated[2]

-----------------------------------------------------------------------------
(* C14 *)

\* the object built from the k-th top-level input of the list setResources was
\* handed (objects are built in the order of the records, a parent before its
\* children)
TopResource(resourceInputs, k) == 1 + Records(SubSeq(resourceInputs, 1, k - 1), 1)

\* every top-level input of the delivered list with a parentId that is the id of
\* a resource built from the list is a child of the indexed resource with that id,
\* and not a top-level resource
AttachedUnderParents ==
    \A k \in DOMAIN delivery.resourceInputs :
        LET parentId == delivery.resourceInputs[k].parentId
            resource == TopResource(delivery.resourceInputs, k)
        IN  (/\ NotNull(parentId)
             /\ \E r \in DOMAIN heap : heap[r].id = String(parentId)) =>
                /\ String(parentId) \in DOMAIN resourcesById
                /\ heap[resource].parent = resourcesById[String(parentId)]
                /\ \E c \in DOMAIN heap[heap[resource].parent].children :
                      heap[heap[resource].parent].children[c] = resource
                /\ \A t \in DOMAIN topLevelResources.items :
                      topLevelResources.items[t] # resource

\* C14 as stated: after setResources, every top-level input with a non-empty
\* parentId is attached under the resource with that id whenever that resource
\* is anywhere in the list (earlier, later or nested), whatever the order.
C14_AttachedWhateverTheBatch == Loaded => AttachedUnderParents

\* C14, amended: the same, for a list whose resource ids (String(id), or the
\* generated id) are pairwise distinct.
C14_AttachedWhateverTheOrder ==
    (Loaded /\ PairwiseDistinct(BuiltIds)) => AttachedUnderParents

\* C14, witness: the first input of the list names as its parent the second
\* input, which comes later, and has been attached under it
C14_ParentComesLater ==
    /\ Loaded
    /\ PairwiseDistinct(BuiltIds)
    /\ Len(delivery.resourceInputs) = 2
    /\ NotNull(delivery.resourceInputs[1].parentId)
    /\ NotNull(delivery.resourceInputs[2].id)
    /\ String(delivery.resourceInputs[2].id) = String(delivery.resourceInputs[1].parentId)
    /\ heap[1].parent = TopResource(delivery.resourceInputs, 2)
    /\ heap[heap[1].parent].children = <<1>>

-----------------------------------------------------------------------------
(* C15 *)

\* the resources in the index
Indexed == {resourcesById[id] : id \in DOMAIN resourcesById}

\* the indexed resources that gave a parentId and were attached nowhere (the
\* parentId did not resolve when addResourceToTree ran)
Unattached ==
    {r \in Indexed : NotNull(heap[r].parentId) /\ heap[r].parent = NoRef}

\* the step removed resource r (triggered `remove` with it)
Removes(tr, r) == \E k \in DOMAIN tr : tr[k].e = "remove" /\ tr[k].a = r

\* C15: a resource whose parentId did not resolve when it was attached is in the
\* index but not reachable from topLevelResources, and every step that is
\* neither a reload of the cache nor the removal of that resource leaves it in
\* the index and unreachable, and raises no error.
C15_UnattachedStaysIndexed ==
    /\ [](\A r \in Unattached : r \notin Reachable)
    /\ [][delivery'.g = 0 =>
            \A r \in Unattached :
                ~Removes(trace', r) =>
                    /\ r \in Indexed'
                    /\ r \notin Reachable'
                    /\ ~Emitted(trace', "TypeError")]_vars

-----------------------------------------------------------------------------
(* C16 *)

\* C16: when removeResource removes a resource that is indexed and in the tree,
\* afterwards neither it nor any of its descendants is in the index or
\* reachable from topLevelResources, every other indexed resource is still
\* indexed, and still reachable if it was, and exactly one `remove` event was
\* triggered, with the removed resource.
C16_RemovesExactlyTheSubtree ==
    [][\A r \in Indexed \cap Reachable :
          Removes(trace', r) =>
              LET gone == Descend({r}, Len(heap)) IN
              /\ \A d \in gone : d \notin Indexed' /\ d \notin Reachable'
              /\ \A o \in Indexed \ gone :
                    /\ o \in Indexed'
                    /\ o \in Reachable => o \in Reachable'
              /\ Cardinality({k \in DOMAIN trace' : trace'[k].e = "remove"}) = 1]_vars

-----------------------------------------------------------------------------
(* C17 *)

\* the positions in the trace tr of the entries named in E
Positions(tr, E) == {k \in DOMAIN tr : tr[k].e \in E}

\* C17: the completion of the current generation rebuilds the index and the tree,
\* then triggers exactly one of `set` and `reset` and exactly one `resourcesSet`
\* (both carry the rebuilt tree), then sets isFetchingResolved, and has invoked
\* no callback by then: the batch starts at its first callback.  The first
\* callback of a batch is invoked right after that completion, and every later
\* one after the callbacks before it.
C17_CompletionOrder ==
    /\ [](Loaded =>
            /\ Cardinality(Positions(trace, {"set", "reset"})) = 1
            /\ Cardinality(Positions(trace, {"resourcesSet"})) = 1
            /\ Cardinality(Positions(trace, {"isFetchingResolved"})) = 1
            /\ \A s \in Positions(trace, {"set", "reset"}),
                  p \in Positions(trace, {"resourcesSet"}),
                  f \in Positions(trace, {"isFetchingResolved"}) :
                  /\ s < p /\ p < f
                  /\ trace[s].i = Len(topLevelResources.items)
                  /\ trace[p].i = Len(topLevelResources.items)
                  /\ \A k \in DOMAIN trace : ~IsInvocation(trace[k])
            /\ Len(topLevelResources.items) = Len(delivery.resourceInputs)
            /\ DOMAIN resourcesById =
                   {String(delivery.resourceInputs[k].id) :
                       k \in DOMAIN delivery.resourceInputs}
            /\ isFetchingResolved
            /\ running = [g |-> delivery.g, i |-> 1]
            /\ \A n \in DOMAIN invocations[delivery.g] : invocations[delivery.g][n] = 0)
    /\ [][\A k \in DOMAIN trace' :
              (IsInvocation(trace'[k]) /\ trace'[k].g # 0) =>
                  /\ running = [g |-> trace'[k].g, i |-> trace'[k].i]
                  /\ trace'[k].i = 1 => (Loaded /\ delivery.g = trace'[k].g)
                  /\ \A j \in 1..(trace'[k].i - 1) :
                        invocations[trace'[k].g][callbackArrays[trace'[k].g][j].n] = 1]_vars

\* C17, witness: a completion has reloaded a cache that was set, with a
\* resource, and the two callbacks queued for it have not been invoked yet
C17_ReloadBeforeItsCallbacks ==
    /\ Loaded
    /\ Emitted(trace, "reset")
    /\ Len(topLevelResources.items) = 1
    /\ Len(callbackArrays[delivery.g]) = 2
    /\ \A n \in DOMAIN invocations[delivery.g] : invocations[delivery.g][n] = 0

-----------------------------------------------------------------------------
(* C18 *)

\* generation g is the latest one, it is resolved, its batch is over and every
\* callback registered for it has been invoked
Settled(g) ==
    /\ fetchId = g
    /\ isFetchingResolved
    /\ running = Idle
    /\ \A n \in DOMAIN invocations[g] : invocations[g][n] = 1

\* C18: when every resolution asked of the source completes, every fetch
\* generation is eventually either superseded by a later fetch or resolved with
\* every callback registered for it invoked, the queued closures of addResource
\* and removeResource included; so once no new fetch is started the latest
\* generation gets resolved and all its callbacks run.
C18_LatestFetchSettles ==
    \A g \in 1..MaxFetch : (fetchId = g) ~> (fetchId > g \/ Settled(g))

\* C18, witness: the second fetch superseded the first one; it is resolved and
\* the closures of an addResource and a removeResource queued for it have run
C18_QueuedEditsRan ==
    /\ Settled(2)
    /\ outstanding = {}
    /\ Len(invocations[2]) = 2
    /\ \A n \in DOMAIN invocations[1] : invocations[1][n] = 0
    /\ Emitted(trace, "removeClosure")

-----------------------------------------------------------------------------
(* C19 *)

\* C19: while clear() is the last call and no fetch has been started since, the
\* cache stays discarded: topLevelResources is null, no `set` or `reset` is
\* triggered and no callback is invoked, also when a fetch that was in flight
\* at the clear() completes.
C19_ClearedStaysCleared ==
    (lastCall.op = "clear" /\ lastCall.at = fetchId) =>
        /\ topLevelResources.isNull
        /\ ~Emitted(trace, "set") /\ ~Emitted(trace, "reset")
        /\ \A k \in DOMAIN trace : ~IsInvocation(trace[k])

-----------------------------------------------------------------------------
(* C20 *)

\* C20: the loading counter of the calendar is never negative and equals the
\* number of resolutions of function and remote sources that have not completed
\* (so it is zero when none is outstanding); a step that resolves the source
\* raises it by one when the resolution is left outstanding and leaves it when
\* the source completed at once; every completion, stale or current, lowers it
\* by one; no other step changes it.
C20_LoadingBalanced ==
    /\ [](loading >= 0 /\ loading = Cardinality(outstanding))
    /\ [][IF Emitted(trace', "completion")
          THEN /\ trace'[1].g \in outstanding
               /\ outstanding' = outstanding \ {trace'[1].g}
               /\ loading' = loading - 1
          ELSE IF Emitted(trace', "fetchResourceInputs")
          THEN /\ fetchId' = fetchId + 1
               /\ \/ /\ outstanding' = outstanding \cup {fetchId'}
                     /\ loading' = loading + 1
                     /\ delivery'.g = 0
                  \/ /\ outstanding' = outstanding
                     /\ loading' = loading
                     /\ delivery'.g = fetchId'
          ELSE loading' = loading /\ outstanding' = outstanding]_vars

\* C20, witness: two resolutions were outstanding; the one of the superseded
\* fetch has completed, stale, and the counter went from two to one
C20_StaleCompletionPops ==
    /\ delivery.g = 1 /\ delivery.stale
    /\ outstanding = {2}
    /\ loading = 1

====
